---- MODULE Spec2Model ----
(***************************************************************************)
(* Model of tf-schema-parser.py: the TerraformSchemaParser rendering       *)
(* engine (_parse_type, _get_placeholder, _format_attribute,               *)
(* _format_block_type, generate_hcl_template) and its callers.              *)
(*                                                                         *)
(* Python strings are TLA+ strings (TLC evaluates Len, SubSeq and \o on    *)
(* them), a Python list of lines is a sequence of strings, a dict is a     *)
(* record whose fields may be absent, and a dict whose key order matters   *)
(* (attributes, block_types) is a sequence of <<key, value>> pairs in       *)
(* source order with distinct keys.  A JSON value whose Python type is     *)
(* inspected (a type expression, a default) is a tagged record.            *)
(***************************************************************************)
EXTENDS Integers, Sequences, FiniteSets, TLC

VARIABLES resources, data_sources, call, ret

vars == <<resources, data_sources, call, ret>>

(***************************************************************************)
(* Bounds of the model.                                                    *)
(***************************************************************************)
MaxTypeDepth == 2
MaxMinItems == 2
MaxIndentLevel == 1

(***************************************************************************)
(* Python built-ins used by the source.                                    *)
(***************************************************************************)
Char(s, i) == SubSeq(s, i, i)

\* str.startswith / str.endswith
StartsWith(s, p) == Len(s) >= Len(p) /\ SubSeq(s, 1, Len(p)) = p
EndsWith(s, p) == Len(s) >= Len(p) /\ SubSeq(s, Len(s) - Len(p) + 1, Len(s)) = p

\* s * n
RECURSIVE Repeat(_, _)
Repeat(s, n) == IF n <= 0 THEN "" ELSE s \o Repeat(s, n - 1)

Min(S) == CHOOSE x \in S : \A y \in S : x <= y
Max(S) == CHOOSE x \in S : \A y \in S : x >= y

\* the characters str.strip() removes
IsSpace(c) == c \in {" ", "\n", "\t", "\r"}

\* str.strip()
Strip(s) ==
    LET keep == {i \in 1..Len(s) : ~IsSpace(Char(s, i))}
    IN  IF keep = {} THEN "" ELSE SubSeq(s, Min(keep), Max(keep))

\* str.split('\n'): the pieces between the line breaks, empty pieces kept
RECURSIVE SplitFrom(_, _, _)
SplitFrom(s, nl, from) ==
    LET rest == {i \in nl : i >= from}
    IN  IF rest = {} THEN <<SubSeq(s, from, Len(s))>>
        ELSE <<SubSeq(s, from, Min(rest) - 1)>> \o SplitFrom(s, nl, Min(rest) + 1)

SplitLines(s) == SplitFrom(s, {i \in 1..Len(s) : Char(s, i) = "\n"}, 1)

\* '\n'.join(lines)
RECURSIVE JoinLines(_)
JoinLines(lines) ==
    IF lines = <<>> THEN ""
    ELSE IF Len(lines) = 1 THEN lines[1]
    ELSE lines[1] \o "\n" \o JoinLines(Tail(lines))

Digits == "0123456789"

\* str(n) of a non-negative int
RECURSIVE IntToStr(_)
IntToStr(n) ==
    IF n < 10 THEN Char(Digits, n + 1)
    ELSE IntToStr(n \div 10) \o Char(Digits, (n % 10) + 1)

\* code-point order of the characters that occur in names
Alphabet == "0123456789_abcdefghijklmnopqrstuvwxyz"
Ord(c) == CHOOSE i \in 1..Len(Alphabet) : Char(Alphabet, i) = c

\* a < b on str
RECURSIVE StrLess(_, _)
StrLess(a, b) ==
    IF b = "" THEN FALSE
    ELSE IF a = "" THEN TRUE
    ELSE IF Head(a) = Head(b) THEN StrLess(Tail(a), Tail(b))
    ELSE Ord(Head(a)) < Ord(Head(b))

\* a plausible slip: the items are left in source order
UnsortedItems(items) == items

\* sorted(d.items(), key=lambda x: x[0]) on a sequence of <<key, value>> pairs
\* with distinct keys
SortedItems(items) ==
    LET rank(i) == Cardinality({j \in 1..Len(items) : StrLess(items[j][1], items[i][1])})
    IN  [k \in 1..Len(items) |-> items[CHOOSE i \in 1..Len(items) : rank(i) = k - 1]]

\* dict.get(key, dflt)
Get(d, key, dflt) == IF key \in DOMAIN d THEN d[key] ELSE dflt

(***************************************************************************)
(* JSON values whose Python type the code inspects.                        *)
(***************************************************************************)
None == [t |-> "none"]
JStr(s) == [t |-> "str", s |-> s]
JBool(b) == [t |-> "bool", b |-> b]
JInt(n) == [t |-> "int", n |-> n]
JList(xs) == [t |-> "list", xs |-> xs]

\* a call's outcome: a returned value, or the exception it raised
Return(v) == [exc |-> "none", v |-> v]
Raise(e) == [exc |-> e]
Raised(r) == r.exc # "none"

\* json.dumps(v) of a str, bool or int
JsonEscape(s) ==
    LET esc(c) == IF c = "\n" THEN "\\n"
                  ELSE IF c = "\"" THEN "\\\""
                  ELSE IF c = "\\" THEN "\\\\"
                  ELSE c
        F[i \in 0..Len(s)] == IF i = 0 THEN "" ELSE F[i - 1] \o esc(Char(s, i))
    IN  F[Len(s)]

json_dumps(v) ==
    CASE v.t = "str"  -> "\"" \o JsonEscape(v.s) \o "\""
      [] v.t = "bool" -> IF v.b THEN "true" ELSE "false"
      [] v.t = "int"  -> IntToStr(v.n)
      [] v.t = "none" -> "null"

\* str(v), as an f-string formats it
PyStr(v) ==
    CASE v.t = "str"  -> v.s
      [] v.t = "bool" -> IF v.b THEN "True" ELSE "False"
      [] v.t = "int"  -> IntToStr(v.n)
      [] v.t = "none" -> "None"

(***************************************************************************)
(* TerraformSchemaParser._parse_type                                       *)
(***************************************************************************)
RECURSIVE _parse_type(_)
_parse_type(type_) ==
    IF type_.t = "str" THEN Return(type_.s)
    ELSE IF type_.t = "list" THEN
        IF Len(type_.xs) = 0 THEN Raise("IndexError")                 \* type_[0]
        ELSE IF type_.xs[1] \in {JStr("list"), JStr("set"), JStr("map")} THEN
            IF Len(type_.xs) < 2 THEN Raise("IndexError")             \* type_[1]
            ELSE LET inner == _parse_type(type_.xs[2])
                 IN  IF Raised(inner) THEN inner
                     ELSE Return(type_.xs[1].s \o "(" \o inner.v \o ")")
        ELSE IF type_.xs[1] = JStr("object") THEN Return("object({...})")
        ELSE IF type_.xs[1] = JStr("tuple") THEN Return("tuple([...])")
        ELSE Return("unknown")
    ELSE Return("unknown")

(***************************************************************************)
(* TerraformSchemaParser._get_placeholder                                  *)
(***************************************************************************)
\* lines 209-221: the fallback on the type signature
_type_placeholder(type_) ==
    IF type_ = "string" THEN "\"\""
    ELSE IF type_ = "bool" THEN "false"
    ELSE IF type_ = "number" THEN "0"
    ELSE IF StartsWith(type_, "list") \/ StartsWith(type_, "set") THEN "[]"
    ELSE IF StartsWith(type_, "map") \/ StartsWith(type_, "object") THEN "{}"
    ELSE IF StartsWith(type_, "tuple") THEN "[]"
    ELSE "null"

\* a plausible slip: the name suffixes are tried before the default
_get_placeholder_suffix_first(type_, attr_name, default) ==
    IF attr_name # "" /\ EndsWith(attr_name, "_name") THEN
        "azurerm_" \o SubSeq(attr_name, 1, Len(attr_name) - 5) \o ".example.name"
    ELSE IF attr_name # "" /\ EndsWith(attr_name, "_id") THEN
        "azurerm_" \o SubSeq(attr_name, 1, Len(attr_name) - 3) \o ".example.id"
    ELSE IF default # None THEN json_dumps(default)
    ELSE _type_placeholder(type_)

_get_placeholder(type_, attr_name, default) ==
    IF default # None THEN json_dumps(default)
    ELSE IF attr_name # "" /\ EndsWith(attr_name, "_name") THEN
        "azurerm_" \o SubSeq(attr_name, 1, Len(attr_name) - 5) \o ".example.name"
    ELSE IF attr_name # "" /\ EndsWith(attr_name, "_id") THEN
        "azurerm_" \o SubSeq(attr_name, 1, Len(attr_name) - 3) \o ".example.id"
    ELSE _type_placeholder(type_)

(***************************************************************************)
(* TerraformSchemaParser._format_attribute                                 *)
(*                                                                         *)
(* The result is the returned list of strings (an element may hold line    *)
(* breaks), or the exception _parse_type raised.  A description that is    *)
(* None (descriptions disabled) and one that is '' are both falsy, the     *)
(* only way the code reads them: both are "" here.                         *)
(***************************************************************************)
\* [f"{indent}# {line}" for line in description.split('\n') if line.strip()]
_desc_lines(indent, description) ==
    LET kept == SelectSeq(SplitLines(description), LAMBDA line : Strip(line) # "")
    IN  [i \in 1..Len(kept) |-> indent \o "# " \o kept[i]]

\* lines 100-122: the annotation, the placeholder and the two layouts
_render_attribute(name, schema, with_descriptions, indent_level, type_) ==
    LET indent      == Repeat("  ", indent_level)
        required    == Get(schema, "required", FALSE)
        optional    == Get(schema, "optional", FALSE)
        sensitive   == Get(schema, "sensitive", FALSE)
        default     == Get(schema, "default", None)
        description == IF with_descriptions
                       THEN Strip(Get(schema, "description", "")) ELSE ""
        status      == IF required THEN "required"
                       ELSE IF optional THEN "optional" ELSE "computed"
        comment     == "# " \o status \o ", type: " \o type_
                       \o (IF sensitive THEN ", sensitive" ELSE "")
                       \o (IF default # None THEN ", default: " \o PyStr(default) ELSE "")
        placeholder == _get_placeholder(type_, name, default)
        line        == indent \o name \o " = " \o placeholder
    IN  IF description # "" THEN
            <<JoinLines(Append(_desc_lines(indent, description), indent \o comment)), line>>
        ELSE <<line \o "  " \o comment>>

\* a plausible slip: the deprecated check is missing
_attribute_lines_keeps_deprecated(name, schema, with_descriptions, indent_level) ==
    LET type_ == _parse_type(Get(schema, "type", None))
    IN  IF Raised(type_) THEN type_
        ELSE Return(_render_attribute(name, schema, with_descriptions, indent_level, type_.v))

\* lines 87-98 and what follows them: the type is resolved (and may raise) before
\* the deprecated check
_attribute_lines(name, schema, with_descriptions, indent_level) ==
    LET type_      == _parse_type(Get(schema, "type", None))
        deprecated == Get(schema, "deprecated", FALSE)
    IN  IF Raised(type_) THEN type_
        ELSE IF deprecated THEN Return(<<>>)
        ELSE Return(_render_attribute(name, schema, with_descriptions, indent_level, type_.v))

\* a plausible slip: required_only is ignored
_format_attribute_keeps_optional(name, schema, with_descriptions, indent_level, required_only) ==
    _attribute_lines(name, schema, with_descriptions, indent_level)

_format_attribute(name, schema, with_descriptions, indent_level, required_only) ==
    IF required_only /\ ~Get(schema, "required", FALSE) THEN Return(<<>>)
    ELSE _attribute_lines(name, schema, with_descriptions, indent_level)

(***************************************************************************)
(* TerraformSchemaParser._format_block_type                                *)
(***************************************************************************)
\* lines.extend(...) when the call returned; the exception when it raised
Extend(acc, r) ==
    IF Raised(acc) THEN acc
    ELSE IF Raised(r) THEN r
    ELSE Return(acc.v \o r.v)

\* for attr_name, attr_schema in <sorted attributes>: lines.extend(_format_attribute(...))
RECURSIVE _extend_attributes(_, _, _, _, _)
_extend_attributes(acc, items, with_descriptions, indent_level, required_only) ==
    IF items = <<>> \/ Raised(acc) THEN acc
    ELSE _extend_attributes(
            Extend(acc, _format_attribute(items[1][1], items[1][2], with_descriptions,
                                          indent_level, required_only)),
            Tail(items), with_descriptions, indent_level, required_only)

RECURSIVE _format_block_type(_, _, _, _, _)

\* for bt_name, bt_schema in <sorted block types>: lines.extend(_format_block_type(...))
RECURSIVE _extend_block_types(_, _, _, _, _)
_extend_block_types(acc, items, with_descriptions, indent_level, required_only) ==
    IF items = <<>> \/ Raised(acc) THEN acc
    ELSE _extend_block_types(
            Extend(acc, _format_block_type(items[1][1], items[1][2], with_descriptions,
                                           indent_level, required_only)),
            Tail(items), with_descriptions, indent_level, required_only)

\* a plausible slip: the loop body runs once, whatever min_items is
_repeat_body_once(acc, body, n) == Extend(acc, body)

\* range(n) iterations of a loop body that appends `body` (or raises)
RECURSIVE _repeat_body(_, _, _)
_repeat_body(acc, body, n) ==
    IF n <= 0 THEN acc ELSE _repeat_body(Extend(acc, body), body, n - 1)

_format_block_type(name, schema, with_descriptions, indent_level, required_only) ==
    LET min_items == Get(schema, "min_items", 0) IN
    IF required_only /\ min_items = 0 THEN Return(<<>>)
    ELSE
    LET indent      == Repeat("  ", indent_level)
        nesting     == Get(schema, "nesting_mode", "single")
        has_max     == "max_items" \in DOMAIN schema            \* max_items is not None
        description == IF with_descriptions
                       THEN Strip(Get(schema, "description", "")) ELSE ""
        block           == Get(schema, "block", <<>>)
        sub_attributes  == SortedItems(Get(block, "attributes", <<>>))
        sub_block_types == SortedItems(Get(block, "block_types", <<>>))
        comment     == "# nesting: " \o nesting \o ", min: " \o IntToStr(min_items)
                       \o (IF has_max THEN ", max: " \o IntToStr(schema.max_items) ELSE "")
        lines0      == IF description # ""
                       THEN Append(_desc_lines(indent, description), indent \o comment)
                       ELSE <<indent \o "# " \o comment>>
        \* the sub-attributes, then the sub-block-types, appended to `acc`
        members(acc, level) ==
            _extend_block_types(
                _extend_attributes(acc, sub_attributes, with_descriptions, level,
                                   required_only),
                sub_block_types, with_descriptions, level, required_only)
        close(acc, text) == Extend(acc, Return(<<text>>))
    IN  IF nesting = "single" THEN
            close(members(Return(Append(lines0, indent \o name \o " {")), indent_level + 1),
                  indent \o "}")
        ELSE IF nesting \in {"list", "set"} THEN
            LET repeat_comment ==
                    indent \o "# Repeat this block as needed (min: " \o IntToStr(min_items)
                    \o (IF has_max /\ schema.max_items # 0         \* if max_items:
                        THEN ", max: " \o IntToStr(schema.max_items) ELSE "")
                    \o ")"
                lines1 == Append(lines0, repeat_comment)
            IN  IF min_items > 0 THEN
                    _repeat_body(
                        Return(lines1),
                        close(members(Return(<<indent \o name \o " {">>), indent_level + 1),
                              indent \o "}"),
                        min_items)
                ELSE
                    Return(lines1 \o
                           << indent \o name \o " {  # optional, uncomment and fill if needed",
                              indent \o "  # ...",
                              indent \o "}" >>)
        ELSE IF nesting = "map" THEN
            close(close(members(Return(lines0 \o
                                  << indent \o name \o " = {  # key = value syntax, repeat as needed",
                                     indent \o "  example_key {" >>),
                                indent_level + 2),
                        indent \o "  }"),
                  indent \o "}")
        ELSE Return(lines0)

(***************************************************************************)
(* TerraformSchemaParser.get_schema_block / generate_hcl_template          *)
(***************************************************************************)
IsNone(x) == "t" \in DOMAIN x /\ x.t = "none"

get_schema_block(res, data, name) ==
    IF name \in DOMAIN res THEN Get(res[name], "block", <<>>)
    ELSE IF name \in DOMAIN data THEN Get(data[name], "block", <<>>)
    ELSE None

generate_hcl_template(res, data, name, with_descriptions, required_only, indent_level) ==
    LET block == get_schema_block(res, data, name) IN
    IF IsNone(block) \/ DOMAIN block = {} THEN Raise("ValueError")     \* if not block
    ELSE
    LET is_resource == name \in DOMAIN res
        block_type  == IF is_resource THEN "resource" ELSE "data"
        lines0      == <<block_type \o " \"" \o name \o "\" \"example\" {">>
        attributes  == SortedItems(Get(block, "attributes", <<>>))
        block_types == SortedItems(Get(block, "block_types", <<>>))
        lines1      == _extend_block_types(
                           _extend_attributes(Return(lines0), attributes, with_descriptions,
                                              indent_level + 1, required_only),
                           block_types, with_descriptions, indent_level + 1, required_only)
    IN  IF Raised(lines1) THEN lines1
        ELSE Return(JoinLines(Append(lines1.v, Repeat("}", indent_level + 1))))

(***************************************************************************)
(* interactive_mode, after a selection: both templates of the selected     *)
(* entry are rendered before anything is printed.                          *)
(***************************************************************************)
_select(res, data, selected) ==
    LET full_template     == generate_hcl_template(res, data, selected, TRUE, FALSE, 0)
        required_template == generate_hcl_template(res, data, selected, TRUE, TRUE, 0)
    IN  IF Raised(full_template) THEN full_template
        ELSE IF Raised(required_template) THEN required_template
        ELSE Return([full_template |-> full_template.v,
                     required_template |-> required_template.v])

(***************************************************************************)
(* The inputs: type expressions, attribute descriptors, block-type         *)
(* descriptors and schema entries, drawn from bounded sets.                *)
(***************************************************************************)
\* dict d with key k set to v when `present`
With(d, k, v, present) ==
    IF present THEN [x \in DOMAIN d \cup {k} |-> IF x = k THEN v ELSE d[x]] ELSE d

Dict0 == [x \in {} |-> 0]

Prims == {"string", "bool", "number", "listing", "dynamic"}
Tags == {"list", "set", "map", "object", "tuple", "foo"}

\* type expressions nested at most k deep: bare names, tagged lists, and the
\* shapes no schema should hold (an empty list, a tag with no element, a list that
\* starts with a list, a number, a missing type)
RECURSIVE TypeExprs(_)
TypeExprs(k) ==
    IF k = 0
    THEN {JStr(p) : p \in Prims} \cup {None, JInt(1), JList(<<>>)}
    ELSE LET sub == TypeExprs(k - 1)
         IN  sub \cup {JList(<<JStr(tag), e>>) : tag \in Tags, e \in sub}
                 \cup {JList(<<JStr(tag)>>) : tag \in Tags}
                 \cup {JList(<<JList(<<>>), JStr("string")>>)}

\* the type expressions of the attribute descriptors: well formed, as the schema
\* dialect has them (every list/set/map tag carries its element type)
AttrTypes == {JStr("string"), JList(<<JStr("list"), JStr("string")>>)}

TypeSignatures ==
    {"string", "bool", "number", "listing", "settings", "mapped", "list(string)",
     "set(bool)", "map(number)", "object({...})", "tuple([...])", "unknown", "dynamic", ""}

AttrNames == {"size", "parent_id", "display_name", "_id", "_name", "id", "name", ""}

Defaults == {None, JStr("a"), JStr("a\nb"), JStr("q\"q"), JBool(FALSE), JBool(TRUE),
             JInt(0), JInt(12)}

\* descriptions: blank, and two lines around a blank line
Descriptions == {" \n ", " Line one\n\n  line two \n"}

\* attribute descriptors: every combination of the flags, with and without a
\* default and a description
AttrSchemas ==
    { With(With(With(With(With(With(With([type |-> ty],
        "required", TRUE, "required" \in fl),
        "optional", TRUE, "optional" \in fl),
        "computed", TRUE, "computed" \in fl),
        "deprecated", dep, dep),
        "sensitive", TRUE, sens),
        "default", df, df # None),
        "description", ds, ds # "")
      : ty \in AttrTypes,
        fl \in SUBSET {"required", "optional", "computed"},
        dep \in BOOLEAN, sens \in BOOLEAN,
        df \in {None, JStr("a\nb"), JBool(FALSE)},
        ds \in {""} \cup Descriptions }

\* a block-type descriptor; an absent key is written as the value the schema
\* would not hold (nesting "", min_items -1, max_items -1, description "")
BlockType(nesting, min_items, max_items, description, block) ==
    With(With(With(With(With(Dict0,
        "nesting_mode", nesting, nesting # ""),
        "min_items", min_items, min_items >= 0),
        "max_items", max_items, max_items >= 0),
        "description", description, description # ""),
        "block", block.b, block.has)

HasBlock(b) == [has |-> TRUE, b |-> b]
NoBlock == [has |-> FALSE]

\* a block: its attributes and its block types, each in source order
Block(attributes, block_types) ==
    With(With(Dict0, "attributes", attributes, attributes # <<>>),
         "block_types", block_types, block_types # <<>>)

ReqAttr  == [type |-> JStr("string"), required |-> TRUE]
OptAttr  == [type |-> JStr("bool"), optional |-> TRUE,
             description |-> "Line one\nline two"]
DeprAttr == [type |-> JStr("string"), required |-> TRUE, deprecated |-> TRUE,
             description |-> "Gone."]
DeprOptAttr == [type |-> JStr("bool"), optional |-> TRUE, computed |-> TRUE,
                deprecated |-> TRUE]
BreakAttr == [type |-> JStr("string"), optional |-> TRUE, default |-> JStr("a\nb")]

LeafBlock == Block(<< <<"size", OptAttr>>, <<"display_name", ReqAttr>>,
                      <<"old_id", DeprAttr>>, <<"legacy", DeprOptAttr>> >>,
                   <<>>)
DeepBlock == Block(<< <<"parent_id", ReqAttr>> >>,
                   << <<"rule", BlockType("list", 1, -1, "", HasBlock(LeafBlock))>>,
                      <<"nic", BlockType("", -1, -1, "", HasBlock(LeafBlock))>> >>)

\* the block-type descriptors _format_block_type is called with
BlockTypeSchemas ==
    { BlockType(nesting, mn, mx, ds, blk)
      : nesting \in {"", "single", "list", "set", "map", "group"},
        mn \in -1..MaxMinItems,
        mx \in {-1, 0, 5},
        ds \in {"", "Rules.\n\nApplied in order."},
        blk \in {NoBlock, HasBlock(LeafBlock), HasBlock(DeepBlock)} }

(***************************************************************************)
(* Schema entries.  Four families: the attributes of the root in every     *)
(* source order; one block type of every nesting mode and item count;      *)
(* two block types in both source orders; block types nested in block      *)
(* types.                                                                  *)
(***************************************************************************)
TreeAttrNames == {"size", "parent_id"}
TreeAttrSchemas == {ReqAttr, OptAttr, DeprAttr, DeprOptAttr, BreakAttr}
TreeNestings == {"single", "list", "set", "map"}

\* the sequences of at most two attributes with distinct names, in both orders
AttrLists ==
    {<<>>}
    \cup { << <<n, a>> >> : n \in TreeAttrNames, a \in TreeAttrSchemas }
    \cup { l \in { << <<n1, a1>>, <<n2, a2>> >>
                   : n1 \in TreeAttrNames, n2 \in TreeAttrNames,
                     a1 \in TreeAttrSchemas, a2 \in {ReqAttr, DeprAttr} }
           : l[1][1] # l[2][1] }

InnerAttrLists ==
    { << <<"size", OptAttr>>, <<"display_name", ReqAttr>> >>,
      << <<"key_id", ReqAttr>> >>,
      << <<"old_id", DeprAttr>>, <<"label", BreakAttr>> >> }

RootAttrFamily == { Block(l, <<>>) : l \in AttrLists }

OneBlockFamily ==
    { Block(<< <<"display_name", ReqAttr>> >>,
            << <<"rule", BlockType(nesting, mn, mx, ds, HasBlock(Block(l, <<>>)))>> >>)
      : nesting \in TreeNestings, mn \in {0, 1, MaxMinItems}, mx \in {-1, 5},
        ds \in {"", "Rules."}, l \in InnerAttrLists }

TwoBlockFamily ==
    { Block(<<>>, IF swap THEN <<b2, b1>> ELSE <<b1, b2>>)
      : swap \in BOOLEAN,
        b1 \in { <<"nic", BlockType(n1, m1, -1, "", HasBlock(LeafBlock))>>
                 : n1 \in TreeNestings, m1 \in {0, 1} },
        b2 \in { <<"rule", BlockType(n2, m2, -1, "", NoBlock)>>
                 : n2 \in {"single", "set"}, m2 \in {0, 1} } }

NestedFamily ==
    { Block(<< <<"size", a>> >>,
            << <<"rule", BlockType(n1, m1, -1, "",
                   HasBlock(Block(l, << <<"zone", BlockType(n2, m2, -1, "", HasBlock(LeafBlock))>>,
                                        <<"nic", BlockType("single", 1, -1, "", NoBlock)>> >>)))>> >>)
      : a \in {ReqAttr, DeprAttr}, n1 \in TreeNestings, m1 \in {0, 1},
        n2 \in TreeNestings, m2 \in {0, MaxMinItems},
        l \in { <<>>, << <<"key_id", ReqAttr>> >> } }

Blocks == RootAttrFamily \cup OneBlockFamily \cup TwoBlockFamily \cup NestedFamily

\* a schema entry holds its root block under 'block'; an entry may lack the key
\* or hold an empty block
Entries == { [block |-> b] : b \in Blocks } \cup { Dict0, [block |-> Dict0] }

SharedResource == [block |-> Block(<< <<"name", ReqAttr>> >>, <<>>)]
SharedData     == [block |-> Block(<< <<"id", OptAttr>> >>, <<>>)]

EntryNames == {"example_widget", "example_shared", "example_missing"}

(***************************************************************************)
(* The state machine.  `call` is the call in progress ("idle": the         *)
(* prompt of interactive_mode, or main before its only call) and `ret`     *)
(* what it returned or raised.                                             *)
(***************************************************************************)
Idle == [op |-> "idle"]

\* TerraformSchemaParser.__init__ / _load_schema: one entry under
\* example_widget, as a resource or as a data source, and example_shared in
\* both categories
Init ==
    /\ \E e \in Entries, as_resource \in BOOLEAN :
          /\ resources = IF as_resource
                         THEN [n \in {"example_widget", "example_shared"} |->
                                 IF n = "example_widget" THEN e ELSE SharedResource]
                         ELSE [n \in {"example_shared"} |-> SharedResource]
          /\ data_sources = IF as_resource
                            THEN [n \in {"example_shared"} |-> SharedData]
                            ELSE [n \in {"example_widget", "example_shared"} |->
                                    IF n = "example_widget" THEN e ELSE SharedData]
    /\ call = Idle
    /\ ret = Idle

\* a fixed catalog for the specifications of the pure helpers
InitHelpers ==
    /\ resources = [n \in {"example_shared"} |-> SharedResource]
    /\ data_sources = [n \in {"example_shared"} |-> SharedData]
    /\ call = Idle
    /\ ret = Idle

ParseType ==
    /\ call.op = "idle"
    /\ \E type_ \in TypeExprs(MaxTypeDepth) :
          /\ call' = [op |-> "_parse_type", type_ |-> type_]
          /\ ret' = _parse_type(type_)
    /\ UNCHANGED <<resources, data_sources>>

GetPlaceholder ==
    /\ call.op = "idle"
    /\ \E type_ \in TypeSignatures, attr_name \in AttrNames, default \in Defaults :
          /\ call' = [op |-> "_get_placeholder", type_ |-> type_, attr_name |-> attr_name,
                      default |-> default]
          /\ ret' = Return(_get_placeholder(type_, attr_name, default))
    /\ UNCHANGED <<resources, data_sources>>

FormatAttribute ==
    /\ call.op = "idle"
    /\ \E name \in {"size", "parent_id"}, schema \in AttrSchemas,
          with_descriptions \in BOOLEAN, indent_level \in 0..MaxIndentLevel,
          required_only \in BOOLEAN :
          /\ call' = [op |-> "_format_attribute", name |-> name, schema |-> schema,
                      with_descriptions |-> with_descriptions,
                      indent_level |-> indent_level, required_only |-> required_only]
          /\ ret' = _format_attribute(name, schema, with_descriptions, indent_level,
                                      required_only)
    /\ UNCHANGED <<resources, data_sources>>

FormatBlockType ==
    /\ call.op = "idle"
    /\ \E schema \in BlockTypeSchemas, with_descriptions \in BOOLEAN,
          indent_level \in 0..MaxIndentLevel, required_only \in BOOLEAN :
          /\ call' = [op |-> "_format_block_type", name |-> "network_rule",
                      schema |-> schema, with_descriptions |-> with_descriptions,
                      indent_level |-> indent_level, required_only |-> required_only]
          /\ ret' = _format_block_type("network_rule", schema, with_descriptions,
                                       indent_level, required_only)
    /\ UNCHANGED <<resources, data_sources>>

\* main with --resource, or any caller: no caller passes indent_level, which
\* keeps its default 0
GenerateHclTemplate ==
    /\ call.op = "idle"
    /\ \E name \in EntryNames, with_descriptions \in BOOLEAN, required_only \in BOOLEAN :
          /\ call' = [op |-> "generate_hcl_template", name |-> name,
                      with_descriptions |-> with_descriptions,
                      required_only |-> required_only]
          /\ ret' = generate_hcl_template(resources, data_sources, name, with_descriptions,
                                          required_only, 0)
    /\ UNCHANGED <<resources, data_sources>>

\* interactive_mode: a name picked among the matches of get_all_names
Select ==
    /\ call.op = "idle"
    /\ \E include_data \in BOOLEAN :
       \E selected \in DOMAIN resources \cup (IF include_data THEN DOMAIN data_sources ELSE {}) :
          /\ call' = [op |-> "select", selected |-> selected]
          /\ ret' = _select(resources, data_sources, selected)
    /\ UNCHANGED <<resources, data_sources>>

\* the call is over: back to the prompt
Prompt ==
    /\ call.op # "idle"
    /\ call' = Idle
    /\ ret' = Idle
    /\ UNCHANGED <<resources, data_sources>>

Next == GenerateHclTemplate \/ Select \/ Prompt

Spec == Init /\ [][Next]_vars

NextTypes == ParseType \/ GetPlaceholder \/ Prompt

SpecTypes == InitHelpers /\ [][NextTypes]_vars

NextAttribute == FormatAttribute \/ Prompt

SpecAttribute == InitHelpers /\ [][NextAttribute]_vars

NextBlockType == FormatBlockType \/ Prompt

SpecBlockType == InitHelpers /\ [][NextBlockType]_vars

(***************************************************************************)
(* What the claims speak of.                                               *)
(***************************************************************************)
\* self.provider
provider == "azurerm"

\* the text a list of returned strings makes once joined: one string per line
TextLines(lines) == IF lines = <<>> THEN <<>> ELSE SplitLines(JoinLines(lines))

\* the number of leading spaces of a line, and the line without them
Indent(l) == Min({i \in 1..Len(l) : Char(l, i) # " "} \cup {Len(l) + 1}) - 1
Body(l) == SubSeq(l, Indent(l) + 1, Len(l))

IsCommentLine(l) == StartsWith(Body(l), "#")

\* a is b with some elements left out
RECURSIVE IsSubsequence(_, _)
IsSubsequence(a, b) ==
    IF a = <<>> THEN TRUE
    ELSE IF b = <<>> THEN FALSE
    ELSE IF Head(a) = Head(b) THEN IsSubsequence(Tail(a), Tail(b))
    ELSE IsSubsequence(a, Tail(b))

(***************************************************************************)
(* C1                                                                      *)
(***************************************************************************)
\* the JSON text of each default the model draws
JsonText(d) ==
    CASE d = JStr("a")      -> "\"a\""
      [] d = JStr("a\nb")   -> "\"a\\nb\""
      [] d = JStr("q\"q")   -> "\"q\\\"q\""
      [] d = JBool(FALSE)   -> "false"
      [] d = JBool(TRUE)    -> "true"
      [] d = JInt(0)        -> "0"
      [] d = JInt(12)       -> "12"

\* the placeholder a type signature alone decides
TypeFallback(sig) ==
    CASE sig = "string" -> "\"\""
      [] sig = "bool"   -> "false"
      [] sig = "number" -> "0"
      [] sig \notin {"string", "bool", "number"}
         /\ (StartsWith(sig, "list") \/ StartsWith(sig, "set") \/ StartsWith(sig, "tuple"))
                        -> "[]"
      [] sig \notin {"string", "bool", "number"}
         /\ (StartsWith(sig, "map") \/ StartsWith(sig, "object"))
                        -> "{}"
      [] OTHER          -> "null"

\* C1: _get_placeholder picks its result by a fixed priority: the JSON encoding
\* of the default when there is one; else '<provider>_<stem>.example.name' for a
\* name ending in '_name'; else '<provider>_<stem>.example.id' for a name ending in
\* '_id'; else what the type signature alone decides.  An attribute with a default
\* and an '_id' name never renders the cross-reference form.
C1_PlaceholderPriority ==
    call.op = "_get_placeholder" =>
        LET n == call.attr_name
            d == call.default
        IN  /\ ret.v =
                 IF d # None THEN JsonText(d)
                 ELSE IF EndsWith(n, "_name")
                 THEN provider \o "_" \o SubSeq(n, 1, Len(n) - Len("_name")) \o ".example.name"
                 ELSE IF EndsWith(n, "_id")
                 THEN provider \o "_" \o SubSeq(n, 1, Len(n) - Len("_id")) \o ".example.id"
                 ELSE TypeFallback(call.type_)
            /\ (d # None /\ EndsWith(n, "_id")) => ~EndsWith(ret.v, ".example.id")

\* a default and an '_id' name together: the default's literal is rendered
C1_Witness ==
    /\ call.op = "_get_placeholder"
    /\ call.attr_name = "parent_id"
    /\ call.default = JBool(FALSE)
    /\ ret.v = "false"

(***************************************************************************)
(* C8                                                                      *)
(***************************************************************************)
\* the signature the claim gives each shape of type expression
RECURSIVE ClaimedSignature(_)
ClaimedSignature(type_) ==
    IF type_.t = "str" THEN type_.s
    ELSE IF type_.t = "list" /\ Len(type_.xs) >= 2
            /\ type_.xs[1] \in {JStr("list"), JStr("set"), JStr("map")}
    THEN type_.xs[1].s \o "(" \o ClaimedSignature(type_.xs[2]) \o ")"
    ELSE IF type_.t = "list" /\ Len(type_.xs) >= 1 /\ type_.xs[1] = JStr("object")
    THEN "object({...})"
    ELSE IF type_.t = "list" /\ Len(type_.xs) >= 1 /\ type_.xs[1] = JStr("tuple")
    THEN "tuple([...])"
    ELSE "unknown"

\* C8: _parse_type is total and never raises: every type expression, an empty
\* list and a list/set/map tag with no element included, gets a signature, and
\* every unrecognized shape gets 'unknown'.
C8_ParseTypeTotal ==
    call.op = "_parse_type" =>
        /\ ~Raised(ret)
        /\ ret.v = ClaimedSignature(call.type_)

(***************************************************************************)
(* C9                                                                      *)
(***************************************************************************)
\* the first true of required, optional, computed ('computed' also when none is)
Tier(schema) ==
    IF Get(schema, "required", FALSE) THEN "required"
    ELSE IF Get(schema, "optional", FALSE) THEN "optional"
    ELSE "computed"

\* tier, type, sensitivity, default
Annotation(schema) ==
    Tier(schema) \o ", type: " \o _parse_type(Get(schema, "type", None)).v
    \o (IF Get(schema, "sensitive", FALSE) THEN ", sensitive" ELSE "")
    \o (IF "default" \in DOMAIN schema THEN ", default: " \o PyStr(schema.default) ELSE "")

Assignment(name, schema, indent_level) ==
    Repeat("  ", indent_level) \o name \o " = "
    \o _get_placeholder(_parse_type(Get(schema, "type", None)).v, name,
                        Get(schema, "default", None))

\* one comment line per non-blank line of the description
DescriptionComments(schema, indent_level) ==
    LET raw  == SplitLines(Strip(schema.description))
        kept == SelectSeq(raw, LAMBDA l : \E i \in 1..Len(l) : ~IsSpace(Char(l, i)))
    IN  [i \in 1..Len(kept) |-> Repeat("  ", indent_level) \o "# " \o kept[i]]

HasDescription(schema, with_descriptions) ==
    /\ with_descriptions
    /\ "description" \in DOMAIN schema
    /\ Strip(schema.description) # ""

Rendered(schema, required_only) ==
    /\ ~Get(schema, "deprecated", FALSE)
    /\ required_only => Get(schema, "required", FALSE)

\* the lines of text the claim gives a rendered attribute
ClaimedAttributeLines(name, schema, with_descriptions, indent_level) ==
    IF HasDescription(schema, with_descriptions)
    THEN DescriptionComments(schema, indent_level)
         \o << Repeat("  ", indent_level) \o "# " \o Annotation(schema),
               Assignment(name, schema, indent_level) >>
    ELSE << Assignment(name, schema, indent_level) \o "  # " \o Annotation(schema) >>

\* C9: a non-deprecated attribute that passes the required_only filter is
\* rendered in one of two layouts: with a description, one comment line per
\* non-blank description line, then the annotation as a comment line of its own,
\* then the assignment line with no inline comment; otherwise exactly one line,
\* the assignment followed by the annotation as an inline comment.
C9_TwoLayouts ==
    (call.op = "_format_attribute" /\ Rendered(call.schema, call.required_only)) =>
        /\ ~Raised(ret)
        /\ TextLines(ret.v) = ClaimedAttributeLines(call.name, call.schema,
                                                    call.with_descriptions, call.indent_level)

(***************************************************************************)
(* C5 and C6                                                               *)
(***************************************************************************)
IsRepeatable(schema) == Get(schema, "nesting_mode", "single") \in {"list", "set"}

\* C5: a list or set block type with min_items = 0, rendered with
\* required_only = false, gets exactly one placeholder instance (a header, an
\* ellipsis line, a closing brace) that is commented out, and no active instance:
\* no line of the rendering opens or closes a real block.
C5_PlaceholderCommentedOut ==
    (/\ call.op = "_format_block_type"
     /\ IsRepeatable(call.schema)
     /\ Get(call.schema, "min_items", 0) = 0
     /\ ~call.required_only) =>
        LET out == TextLines(ret.v)
            n   == Len(out)
        IN  /\ ~Raised(ret)
            /\ n >= 3
            /\ Body(out[n - 1]) = "# ..."
            /\ \A i \in 1..n : IsCommentLine(out[i])

\* lines.extend over every call's result, in order
RECURSIVE Flatten(_)
Flatten(results) ==
    IF results = <<>> THEN <<>> ELSE results[1].v \o Flatten(Tail(results))

\* the rendering of the sorted sub-attributes, then of the sorted sub-block-types,
\* of a block at a depth
MemberLines(block, with_descriptions, indent_level, required_only) ==
    LET attrs == SortedItems(Get(block, "attributes", <<>>))
        bts   == SortedItems(Get(block, "block_types", <<>>))
    IN  Flatten([i \in 1..Len(attrs) |->
                    _format_attribute(attrs[i][1], attrs[i][2], with_descriptions,
                                      indent_level, required_only)])
        \o Flatten([i \in 1..Len(bts) |->
                    _format_block_type(bts[i][1], bts[i][2], with_descriptions,
                                       indent_level, required_only)])

\* the lines after the leading run of comment lines
RECURSIVE AfterComments(_)
AfterComments(lines) ==
    IF lines # <<>> /\ IsCommentLine(Head(lines)) THEN AfterComments(Tail(lines)) ELSE lines

\* C6: a list or set block type with min_items = n > 0 gets exactly n fully
\* rendered instances, each an opening header, the rendering of the sorted
\* sub-attributes and sub-block-types at depth + 1 and a closing brace; the n
\* instances are identical and there is no commented placeholder instance.
C6_MinItemsInstances ==
    (/\ call.op = "_format_block_type"
     /\ IsRepeatable(call.schema)
     /\ Get(call.schema, "min_items", 0) > 0) =>
        LET n        == call.schema.min_items
            indent   == Repeat("  ", call.indent_level)
            instance == <<indent \o call.name \o " {">>
                        \o TextLines(MemberLines(Get(call.schema, "block", Dict0),
                                                 call.with_descriptions,
                                                 call.indent_level + 1, call.required_only))
                        \o <<indent \o "}">>
            k        == Len(instance)
            rest     == AfterComments(TextLines(ret.v))
        IN  /\ ~Raised(ret)
            /\ Len(rest) = n * k
            /\ \A j \in 0..(n - 1) : SubSeq(rest, j * k + 1, (j + 1) * k) = instance
            /\ \A i \in 1..Len(rest) :
                  rest[i] # indent \o call.name \o " {  # optional, uncomment and fill if needed"

\* two instances of a list block type with sub-attributes
C6_Witness ==
    /\ call.op = "_format_block_type"
    /\ Get(call.schema, "nesting_mode", "single") = "list"
    /\ Get(call.schema, "min_items", 0) = 2
    /\ "block" \in DOMAIN call.schema
    /\ ~Raised(ret)
    /\ Len(AfterComments(TextLines(ret.v))) >= 6

(***************************************************************************)
(* The claims about whole templates.                                       *)
(***************************************************************************)
IsTemplate == call.op = "generate_hcl_template" /\ ~Raised(ret)

\* the root block of the entry the call names
RootBlock == get_schema_block(resources, data_sources, call.name)

\* a catalog with every root block replaced by its image under an operator
OverBlocks(catalog, Op(_)) ==
    [n \in DOMAIN catalog |->
        [k \in DOMAIN catalog[n] |-> IF k = "block" THEN Op(catalog[n][k]) ELSE catalog[n][k]]]

(***************************************************************************)
(* C7                                                                      *)
(***************************************************************************)
\* C7: generate_hcl_template fails with the not-found error when the name is in
\* neither category, and only then: for a name in a category the error is never
\* raised and the template starts '<keyword> "<name>" "example" {', the keyword
\* being 'resource' for a resource and 'data' otherwise.
C7_NotFoundOnlyWhenMissing ==
    call.op = "generate_hcl_template" =>
        LET known   == call.name \in DOMAIN resources \cup DOMAIN data_sources
            keyword == IF call.name \in DOMAIN resources THEN "resource" ELSE "data"
        IN  /\ ret.exc = "ValueError" <=> ~known
            /\ known =>
                  /\ ~Raised(ret)
                  /\ SplitLines(ret.v)[1] = keyword \o " \"" \o call.name \o "\" \"example\" {"

(***************************************************************************)
(* C3                                                                      *)
(***************************************************************************)
\* a block without its deprecated attributes, at every depth
RECURSIVE WithoutDeprecated(_)
WithoutDeprecated(block) ==
    [k \in DOMAIN block |->
        IF k = "attributes"
        THEN SelectSeq(block[k], LAMBDA item : ~Get(item[2], "deprecated", FALSE))
        ELSE [i \in 1..Len(block[k]) |->
                <<block[k][i][1],
                  [f \in DOMAIN block[k][i][2] |->
                      IF f = "block" THEN WithoutDeprecated(block[k][i][2][f])
                      ELSE block[k][i][2][f]]>>]]

\* the deprecated attributes of a block, at every depth
RECURSIVE DeprecatedCount(_)
SumOver(f) ==
    LET S[i \in 0..Len(f)] == IF i = 0 THEN 0 ELSE S[i - 1] + f[i] IN S[Len(f)]
DeprecatedCount(block) ==
    LET attrs == Get(block, "attributes", <<>>)
        bts   == Get(block, "block_types", <<>>)
    IN  Cardinality({i \in 1..Len(attrs) : Get(attrs[i][2], "deprecated", FALSE)})
        + SumOver([i \in 1..Len(bts) |-> DeprecatedCount(Get(bts[i][2], "block", Dict0))])

\* C3: whatever the description flag and the required_only flag, no deprecated
\* attribute produces any line of the template, at the root or at any depth:
\* the template is the one of the entry without its deprecated attributes.
C3_DeprecatedNeverRendered ==
    call.op = "generate_hcl_template" =>
        ret = generate_hcl_template(OverBlocks(resources, WithoutDeprecated),
                                    OverBlocks(data_sources, WithoutDeprecated),
                                    call.name, call.with_descriptions, call.required_only, 0)

\* a template of an entry that holds a required deprecated attribute at its root
\* and deprecated attributes in the blocks below it
C3_Witness ==
    /\ IsTemplate
    /\ call.name = "example_widget"
    /\ \E i \in 1..Len(Get(RootBlock, "attributes", <<>>)) :
          /\ Get(RootBlock.attributes[i][2], "deprecated", FALSE)
          /\ Get(RootBlock.attributes[i][2], "required", FALSE)
    /\ DeprecatedCount(RootBlock) >= 3
    /\ Len(SplitLines(ret.v)) > 6

(***************************************************************************)
(* C2                                                                      *)
(***************************************************************************)
\* a block without its non-required attributes and its block types of
\* min_items 0, at every depth
RECURSIVE RequiredPart(_)
RequiredPart(block) ==
    [k \in DOMAIN block |->
        IF k = "attributes"
        THEN SelectSeq(block[k], LAMBDA item : Get(item[2], "required", FALSE))
        ELSE LET kept == SelectSeq(block[k], LAMBDA item : Get(item[2], "min_items", 0) > 0)
             IN  [i \in 1..Len(kept) |->
                    <<kept[i][1],
                      [f \in DOMAIN kept[i][2] |->
                          IF f = "block" THEN RequiredPart(kept[i][2][f])
                          ELSE kept[i][2][f]]>>]]

FullTemplate ==
    generate_hcl_template(resources, data_sources, call.name, call.with_descriptions, FALSE, 0)

\* C2 as claimed: the required_only template is a strict subset of the lines of
\* the full template of the same entry, in the same relative order.
C2_StrictSubset ==
    (IsTemplate /\ call.required_only) =>
        /\ ~Raised(FullTemplate)
        /\ IsSubsequence(SplitLines(ret.v), SplitLines(FullTemplate.v))
        /\ SplitLines(ret.v) # SplitLines(FullTemplate.v)

\* C2, amended: the lines of the required_only template are lines of the full
\* template of the same entry in the same relative order (all of them when
\* nothing is filtered out), and it holds assignments only for required
\* attributes and blocks only for block types with min_items > 0, at every depth:
\* it is the full template of the entry reduced to those.
C2_RequiredOnlySubsequence ==
    (call.op = "generate_hcl_template" /\ call.required_only) =>
        /\ Raised(ret) <=> Raised(FullTemplate)
        /\ ~Raised(ret) => IsSubsequence(SplitLines(ret.v), SplitLines(FullTemplate.v))
        /\ ret = generate_hcl_template(OverBlocks(resources, RequiredPart),
                                       OverBlocks(data_sources, RequiredPart),
                                       call.name, call.with_descriptions, FALSE, 0)

\* a required_only template shorter than the full one, with a block in it
C2_Witness ==
    /\ IsTemplate
    /\ call.required_only
    /\ call.name = "example_widget"
    /\ Len(SplitLines(ret.v)) < Len(SplitLines(FullTemplate.v))
    /\ Len(SplitLines(ret.v)) > 6

(***************************************************************************)
(* C4 and C10: the template read back as text.                             *)
(***************************************************************************)
IsCloseLine(l) == StartsWith(Body(l), "}")

\* the first word of a line, and what follows it
NameEnd(b) == Min({i \in 1..Len(b) : Char(b, i) = " "} \cup {Len(b) + 1})
LineName(l) == LET b == Body(l) IN SubSeq(b, 1, NameEnd(b) - 1)
AfterName(l) == LET b == Body(l) IN SubSeq(b, NameEnd(b), Len(b))

\* the lines that open a nested block: '<name> {' (with the remark of the
\* placeholder instance or without) and the map header '<name> = {'
IsBlockHeader(l) ==
    /\ ~IsCommentLine(l)
    /\ AfterName(l) \in {" {", " {  # optional, uncomment and fill if needed",
                         " = {  # key = value syntax, repeat as needed"}

IsAssignmentLine(l) ==
    /\ ~IsCommentLine(l)
    /\ ~IsCloseLine(l)
    /\ StartsWith(AfterName(l), " = ")
    /\ ~IsBlockHeader(l)

\* the nearest line at or above line m that opens a block at a lesser indentation
\* than ind: the line that opens the block a line indented by ind is a member of
RECURSIVE Opener(_, _, _)
Opener(line, ind, m) ==
    IF m = 0 THEN 0
    ELSE IF line[m].kind = "block" /\ line[m].ind < ind THEN m
    ELSE Opener(line, ind, m - 1)

\* C4: within each block of a template (the root and every nested block
\* instance), the rendered attributes are in strictly ascending lexical order of
\* name, and the rendered block types follow them, in ascending lexical order
\* of name (the instances of one block type side by side), whatever the order
\* of the keys in the schema.  Two lines are members of the same block instance
\* when they are indented alike under the same opening line.
C4_AscendingOrder ==
    IsTemplate =>
        \A L \in {SplitLines(ret.v)} :
        \A line \in {[i \in 1..Len(L) |->
                        [ind  |-> Indent(L[i]),
                         kind |-> IF i = 1 \/ IsBlockHeader(L[i]) THEN "block"
                                  ELSE IF IsAssignmentLine(L[i]) THEN "attribute"
                                  ELSE "other",
                         name |-> LineName(L[i])]]} :
        \A parent \in {[i \in 1..Len(L) |-> Opener(line, line[i].ind, i - 1)]} :
        \A i \in 2..Len(L) : \A j \in (i + 1)..Len(L) :
            (/\ line[i].kind # "other" /\ line[j].kind # "other"
             /\ line[i].ind = line[j].ind
             /\ parent[i] # 0 /\ parent[i] = parent[j]) =>
                /\ (line[i].kind = "attribute" /\ line[j].kind = "attribute")
                      => StrLess(line[i].name, line[j].name)
                /\ (line[i].kind = "block" /\ line[j].kind = "block")
                      => \/ line[i].name = line[j].name
                         \/ StrLess(line[i].name, line[j].name)
                /\ ~(line[i].kind = "block" /\ line[j].kind = "attribute")

\* the keys of a dict are in ascending order in the source
SourceSorted(items) ==
    \A i \in 1..Len(items) : \A j \in (i + 1)..Len(items) : StrLess(items[i][1], items[j][1])

\* a template with two attributes and two block types of the root, from an
\* entry whose keys are not in ascending order
C4_Witness ==
    /\ IsTemplate
    /\ call.name = "example_widget"
    /\ ~call.required_only
    /\ \/ /\ ~SourceSorted(Get(RootBlock, "attributes", <<>>))
          /\ \A i \in 1..Len(RootBlock.attributes) :
                ~Get(RootBlock.attributes[i][2], "deprecated", FALSE)
       \/ ~SourceSorted(Get(RootBlock, "block_types", <<>>))

\* the blocks open before line i: the opening lines less the closing lines
Depth(L, i) ==
    Cardinality({m \in 1..(i - 1) : ~IsCommentLine(L[m]) /\ ~IsCloseLine(L[m])
                                     /\ (m = 1 \/ IsBlockHeader(L[m]))})
    - Cardinality({m \in 1..(i - 1) : IsCloseLine(L[m])})

\* C10: a template of an entry whose block types have nesting modes single,
\* list, set or map is well nested: a line that opens a block at depth d is
\* indented by 2*d spaces and matched by a later closing brace indented alike,
\* every line between the two is indented by at least 2*(d+1) spaces, and the
\* template ends with the only closing brace of depth 0.
C10_WellNested ==
    IsTemplate =>
        LET L == SplitLines(ret.v)
            n == Len(L)
        IN  /\ \A i \in 1..n :
                  (i = 1 \/ IsBlockHeader(L[i])) =>
                      /\ Indent(L[i]) = 2 * Depth(L, i)
                      /\ \E j \in (i + 1)..n :
                            /\ L[j] = Repeat(" ", Indent(L[i])) \o "}"
                            /\ \A m \in (i + 1)..(j - 1) : Indent(L[m]) >= Indent(L[i]) + 2
            /\ L[n] = "}"
            /\ \A i \in 1..(n - 1) : L[i] # "}"

====
